---------------------------- MODULE Spec2Model ----------------------------
(***************************************************************************)
(* A model of powerdms-poweruser.py: the filename sanitizer safe_filename  *)
(* and the pipeline scrape_powerdms_site (resolve the URL, fetch the       *)
(* catalog, check its shape, write the CSV index, write the download       *)
(* script).                                                                *)
(*                                                                         *)
(* A Python str is a sequence of one-character strings, so that the        *)
(* regular expressions, endswith, the substring test and the slices of the *)
(* source are computed character by character.                             *)
(***************************************************************************)
EXTENDS Naturals, Sequences, FiniteSets

VARIABLES
    text,        \* safe_filename: the argument of the first call
    result,      \* safe_filename(text)
    again,       \* safe_filename(result)
    sanPc,       \* "input" | "once" | "twice" ("off" in the pipeline)
    pc,          \* the position of scrape_powerdms_site ("off" in the sanitizer)
    url,         \* the argument of scrape_powerdms_site
    jsonError,   \* the class response.json() raises on a body that is not JSON
    site_name,   \* path_parts[0]
    json_api_url,\* the endpoint the GET is sent to
    requestCount,\* the number of HTTP GETs issued
    response,    \* what the server answered
    data,        \* response.json()
    documents,   \* data.get('data')
    files,       \* the files this run has written: name -> content
    stdout,      \* the diagnostics printed so far
    raised       \* the exception that left scrape_powerdms_site, or "none"

vars == <<text, result, again, sanPc, pc, url, jsonError, site_name,
          json_api_url, requestCount, response, data, documents, files,
          stdout, raised>>

sanVars == <<text, result, again, sanPc>>
runVars == <<pc, url, jsonError, site_name, json_api_url, requestCount,
             response, data, documents, files, stdout, raised>>

-----------------------------------------------------------------------------
(* Bounds of the model *)

\* the longest short argument of safe_filename that is enumerated
MaxTextLen == 3
\* the longest catalog the server answers with
MaxDocs == 2

-----------------------------------------------------------------------------
(* Strings *)

Min(a, b) == IF a < b THEN a ELSE b

\* text.endswith(suffix)
EndsWith(s, suffix) ==
    /\ Len(s) >= Len(suffix)
    /\ SubSeq(s, Len(s) - Len(suffix) + 1, Len(s)) = suffix

\* needle in s
Contains(s, needle) ==
    \E i \in 0..Len(s) :
        /\ i + Len(needle) <= Len(s)
        /\ SubSeq(s, i + 1, i + Len(needle)) = needle

\* every string over alphabet of length at most n
StringsUpTo(alphabet, n) == UNION {[1..k -> alphabet] : k \in 0..n}

-----------------------------------------------------------------------------
(* safe_filename *)

\* the character class [<>:"/\\|?*]
Reserved == {"<", ">", ":", "\"", "/", "\\", "|", "?", "*"}

\* the characters \s matches and str.strip() removes
Whitespace == {" ", "\t", "\n", "\r", "\f"}

\* text[:200]
MaxFilenameLen == 200

ReplaceReservedKeepingQuestionMark(t) ==
    [i \in 1..Len(t) |-> IF t[i] \in Reserved \ {"?"} THEN " " ELSE t[i]]

\* re.sub(r'[<>:"/\\|?*]', ' ', text)
ReplaceReserved(t) ==
    [i \in 1..Len(t) |-> IF t[i] \in Reserved THEN " " ELSE t[i]]

\* re.sub(r'\s+', '_', text): every maximal run of whitespace becomes one "_".
\* A character is kept unless it is whitespace that follows whitespace (it
\* is then inside a run that its first character already stands for); the
\* j-th character of the result is the j-th kept one, "_" for a run.
CollapseWhitespace(t) ==
    LET kept == {i \in 1..Len(t) :
                    ~(t[i] \in Whitespace /\ i > 1 /\ t[i - 1] \in Whitespace)}
        rank == [i \in 1..Len(t) |-> Cardinality({k \in kept : k <= i})]
    IN  [j \in 1..Cardinality(kept) |->
            LET i == CHOOSE k \in kept : rank[k] = j
            IN  IF t[i] \in Whitespace THEN "_" ELSE t[i]]

RECURSIVE LStrip(_)
LStrip(t) ==
    IF t # <<>> /\ t[1] \in Whitespace THEN LStrip(Tail(t)) ELSE t

RECURSIVE RStrip(_)
RStrip(t) ==
    IF t # <<>> /\ t[Len(t)] \in Whitespace
    THEN RStrip(SubSeq(t, 1, Len(t) - 1))
    ELSE t

\* str.strip(): leading and trailing whitespace removed
Strip(t) == RStrip(LStrip(t))

\* if text.endswith('.'): text = text[:-1]
DropTrailingDot(t) ==
    IF EndsWith(t, <<".">>) THEN SubSeq(t, 1, Len(t) - 1) ELSE t

\* text[:200]
Truncate(t) == SubSeq(t, 1, Min(Len(t), MaxFilenameLen))

safe_filename(t) ==
    Truncate(DropTrailingDot(Strip(CollapseWhitespace(ReplaceReserved(t)))))

-----------------------------------------------------------------------------
(* The sanitizer on its own: safe_filename applied to an argument, and     *)
(* applied again to its own result.                                        *)

SanAlphabet == {"a", " ", "/", "?", ".", "_"}

Filler(n) == [i \in 1..n |-> "a"]

\* the arguments first drawn: every short string over the alphabet
SanTexts == StringsUpTo(SanAlphabet, MaxTextLen)

RunOff ==
    /\ pc = "off"
    /\ url = <<>>
    /\ jsonError = "none"
    /\ site_name = <<>>
    /\ json_api_url = <<>>
    /\ requestCount = 0
    /\ response = <<>>
    /\ data = <<>>
    /\ documents = <<>>
    /\ files = <<>>
    /\ stdout = <<>>
    /\ raised = "none"

SanInit ==
    /\ text \in SanTexts
    /\ result = <<>>
    /\ again = <<>>
    /\ sanPc = "input"
    /\ RunOff

\* The argument grows to 199 to 201 characters, the lengths around the slice
\* text[:200]: 199 filler characters go before a short one.
Lengthen ==
    /\ sanPc = "input"
    /\ Len(text) <= 2
    /\ text' = Filler(MaxFilenameLen - 1) \o text
    /\ UNCHANGED <<result, again, sanPc>>
    /\ UNCHANGED runVars

Sanitize ==
    /\ sanPc = "input"
    /\ result' = safe_filename(text)
    /\ sanPc' = "once"
    /\ UNCHANGED <<text, again>>
    /\ UNCHANGED runVars

Resanitize ==
    /\ sanPc = "once"
    /\ again' = safe_filename(result)
    /\ sanPc' = "twice"
    /\ UNCHANGED <<text, result>>
    /\ UNCHANGED runVars

SanNext == Lengthen \/ Sanitize \/ Resanitize

SanSpec == SanInit /\ [][SanNext]_vars

-----------------------------------------------------------------------------
(* String literals of scrape_powerdms_site *)

PowerdmsSuffix ==
    <<"p", "o", "w", "e", "r", "d", "m", "s", ".", "c", "o", "m">>
NoNameFound ==
    <<"n", "o", "-", "n", "a", "m", "e", "-", "f", "o", "u", "n", "d">>
NoUrlFound ==
    <<"n", "o", "-", "u", "r", "l", "-", "f", "o", "u", "n", "d">>
HttpsPrefix ==
    <<"h", "t", "t", "p", "s", ":", "/", "/">>
DocumentsSuffix ==
    <<"/", "d", "o", "c", "u", "m", "e", "n", "t", "s">>
DownloadedPrefix ==
    <<"d", "o", "w", "n", "l", "o", "a", "d", "e", "d", "_">>
CsvSuffix ==
    <<"_", "d", "o", "c", "u", "m", "e", "n", "t", "s", ".", "c", "s", "v">>
DownloadPrefix ==
    <<"d", "o", "w", "n", "l", "o", "a", "d", "_">>
ShSuffix ==
    <<".", "s", "h">>
PdfSuffix ==
    <<".", "p", "d", "f">>
ErrorResponseHtml ==
    <<"e", "r", "r", "o", "r", "_", "r", "e", "s", "p", "o", "n", "s", "e",
      ".", "h", "t", "m", "l">>
DebugJson ==
    <<"d", "e", "b", "u", "g", ".", "j", "s", "o", "n">>
NameColumn ==
    <<"n", "a", "m", "e">>
UrlColumn ==
    <<"u", "r", "l">>

(* What print() is given, without the interpolated values *)
MsgStart == "-> Starting scrape for:"
MsgInvalidUrl == "! ERROR: This does not appear to be a valid public PowerDMS URL."
MsgExample == "! Example: https://public.powerdms.com/MassStatePolice/tree/147101"
MsgSiteName == "   Site Name:"
MsgEndpoint == "   API Endpoint:"
MsgParseError == "! ERROR: Could not parse the provided URL."
MsgFetching == "-> Fetching document list from API..."
MsgFetched == "   Successfully fetched JSON data."
MsgHttpError == "! HTTP ERROR:"
MsgPrivate == "! The site may not have a public document API or may be private."
MsgRequestError == "! REQUEST ERROR: Could not connect to the server."
MsgDecodeError == "! ERROR: Failed to decode JSON. The response may not be valid JSON."
MsgSavingHtml == "   Saving server response to 'error_response.html' for debugging."
MsgNoDataList == "! ERROR: The JSON response does not contain a 'data' list."
MsgSavingJson == "   Saving JSON response to 'debug.json' for inspection."
MsgNoDocuments == "! No public documents were found at this endpoint."
MsgFound == "   Found document entries."
MsgWritingCsv == "-> Writing document list to"
MsgSuccess == "   Success."
MsgGenerating == "-> Generating download script"
MsgAllDone == "ALL DONE!"

-----------------------------------------------------------------------------
(* 1. Site name and API endpoint *)

\* The URL given on the command line, by its parts: the authority is
\* [user@]host[:port]; a URL written without "scheme://" has none, and
\* urlparse reads all of it as a path.
UrlUsers == { <<>>, PowerdmsSuffix }

UrlHosts ==
    { <<>>,
      PowerdmsSuffix,
      <<"x", ".">> \o PowerdmsSuffix,
      <<"x">> \o PowerdmsSuffix,
      PowerdmsSuffix \o <<".", "x">>,
      <<"x", ".", "c", "o", "m">>,
      <<"[", "x">> }

UrlPorts == { <<>>, <<"8">> }

UrlPaths ==
    { <<>>, <<"/">>, <<"/", "/">>, <<"/", "S">>, <<"/", "/", "S">>,
      <<"/", "S", "/", "t">>, <<"x", ".">> \o PowerdmsSuffix \o <<"/", "S">> }

Urls ==
    { u \in [user : UrlUsers, host : UrlHosts, port : UrlPorts, path : UrlPaths] :
        /\ u.host = <<>> => u.user = <<>> /\ u.port = <<>>
        /\ u.host # <<>> /\ u.path # <<>> => u.path[1] = "/" }

\* urlparse(url).netloc
UrlNetloc(u) ==
    (IF u.user = <<>> THEN <<>> ELSE u.user \o <<"@">>)
        \o u.host
        \o (IF u.port = <<>> THEN <<>> ELSE <<":">> \o u.port)

\* urlparse(url).path
UrlPath(u) == u.path

\* urlparse raises ValueError("Invalid IPv6 URL") for an unmatched bracket
UrlParseRaises(u) ==
    LET netloc == UrlNetloc(u)
    IN  (\E i \in 1..Len(netloc) : netloc[i] = "[")
            # (\E i \in 1..Len(netloc) : netloc[i] = "]")

\* s.split(sep)
RECURSIVE Split(_, _)
Split(s, sep) ==
    IF \A i \in 1..Len(s) : s[i] # sep
    THEN <<s>>
    ELSE LET k == CHOOSE i \in 1..Len(s) :
                      s[i] = sep /\ \A j \in 1..(i - 1) : s[j] # sep
         IN  <<SubSeq(s, 1, k - 1)>> \o Split(SubSeq(s, k + 1, Len(s)), sep)

NonEmpty(part) == part # <<>>

\* [part for part in parsed_url.path.split('/') if part]
PathParts(path) == SelectSeq(Split(path, "/"), NonEmpty)

InvalidSiteIgnoringDomain(domain, path_parts) == path_parts = <<>>

\* not domain.endswith('powerdms.com') or not path_parts
InvalidSite(domain, path_parts) ==
    ~EndsWith(domain, PowerdmsSuffix) \/ path_parts = <<>>

\* f"https://{domain}/{site_name}/documents"
ApiEndpoint(domain, site) ==
    HttpsPrefix \o domain \o <<"/">> \o site \o DocumentsSuffix

SanOff ==
    /\ text = <<>>
    /\ result = <<>>
    /\ again = <<>>
    /\ sanPc = "off"

Init ==
    /\ SanOff
    /\ pc = "resolve"
    /\ url \in Urls
    /\ jsonError = "none"
    /\ site_name = <<>>
    /\ json_api_url = <<>>
    /\ requestCount = 0
    /\ response = <<>>
    /\ data = <<>>
    /\ documents = <<>>
    /\ files = <<>>
    /\ stdout = <<>>
    /\ raised = "none"

\* lines 29-49
Resolve ==
    /\ pc = "resolve"
    /\ IF UrlParseRaises(url)
       THEN /\ stdout' = stdout \o <<MsgStart, MsgParseError>>
            /\ pc' = "returned"
            /\ UNCHANGED <<site_name, json_api_url>>
       ELSE LET domain == UrlNetloc(url)
                path_parts == PathParts(UrlPath(url))
            IN  IF InvalidSite(domain, path_parts)
                THEN /\ stdout' = stdout \o <<MsgStart, MsgInvalidUrl, MsgExample>>
                     /\ pc' = "returned"
                     /\ UNCHANGED <<site_name, json_api_url>>
                ELSE /\ site_name' = path_parts[1]
                     /\ json_api_url' = ApiEndpoint(domain, path_parts[1])
                     /\ stdout' = stdout \o <<MsgStart, MsgSiteName, MsgEndpoint>>
                     /\ pc' = "fetch"
    /\ UNCHANGED <<url, jsonError, requestCount, response, data, documents,
                   files, raised>>
    /\ UNCHANGED sanVars

-----------------------------------------------------------------------------
(* 2. Fetching the catalog *)

\* A JSON value that response.json() returns: its Python type, and the
\* members of a dict or the items of a list.
PyNone == [type |-> "NoneType", items |-> <<>>]

DocNames == { <<"A", "/", "B">>, <<" ", "a">>, <<"a", ".", ".">> }

DocUrls == { <<"u">>, NoUrlFound, <<"u", "/">> \o NoUrlFound }

\* the elements of the 'data' list: dicts with an id, and a name and a
\* publicUrl that may each be absent
Docs ==
    {[id |-> <<"1">>]}
        \cup {[id |-> <<"1">>, name |-> n] : n \in DocNames}
        \cup {[id |-> <<"1">>, publicUrl |-> u] : u \in DocUrls}
        \cup {[id |-> <<"1">>, name |-> n, publicUrl |-> u] :
                n \in DocNames, u \in DocUrls}

Catalogs == UNION {[1..n -> Docs] : n \in 0..MaxDocs}

\* what the key 'data' may hold
DataValues ==
    {[type |-> "list", items |-> c] : c \in Catalogs}
        \cup {[type |-> t, items |-> <<>>] : t \in {"NoneType", "str", "int", "dict"}}

\* what the body may parse to: a dict with or without the key 'data', or a
\* JSON value that is no object
JsonBodies ==
    {[type |-> "dict", members |-> <<>>],
     [type |-> "dict", members |-> [error |-> [type |-> "str", items |-> <<>>]]]}
        \cup {[type |-> "dict", members |-> [data |-> v]] : v \in DataValues}
        \cup {[type |-> t, members |-> <<>>] : t \in {"list", "str", "int", "NoneType"}}

\* bodies that are not JSON
InvalidTexts == { <<>>, <<"<", "h", ">">> }

\* What session.get meets: no answer (an exception of the transport), or a
\* response with its status and its body, which either parses ("json") or
\* does not ("text").
Responses ==
    {[outcome |-> o] : o \in {"ConnectionError", "Timeout"}}
        \cup {[outcome |-> "response", status_code |-> c, text |-> t] :
                c \in {200, 204, 304, 404, 500}, t \in InvalidTexts}
        \cup {[outcome |-> "response", status_code |-> 200, json |-> j] :
                j \in JsonBodies}

\* the class response.json() raises on an invalid body: requests'
\* JSONDecodeError (requests >= 2.27) or the json module's (before)
JsonErrorClasses == {"requests.JSONDecodeError", "json.JSONDecodeError"}

\* the classes an exception is an instance of
Mro(cls) ==
    CASE cls = "HTTPError" -> {"HTTPError", "RequestException"}
      [] cls = "ConnectionError" -> {"ConnectionError", "RequestException"}
      [] cls = "Timeout" -> {"Timeout", "RequestException"}
      [] cls = "requests.JSONDecodeError" ->
            {"requests.JSONDecodeError", "InvalidJSONError", "RequestException",
             "json.JSONDecodeError", "ValueError"}
      [] cls = "json.JSONDecodeError" -> {"json.JSONDecodeError", "ValueError"}
      [] OTHER -> {cls}

\* the except clauses of the second try statement, in their order
ExceptClauses == <<"HTTPError", "RequestException", "json.JSONDecodeError">>

\* the first except clause the exception is an instance of
Handler(cls) ==
    LET matching == {i \in 1..Len(ExceptClauses) : ExceptClauses[i] \in Mro(cls)}
    IN  IF matching = {}
        THEN "unhandled"
        ELSE ExceptClauses[CHOOSE i \in matching : \A j \in matching : i <= j]

\* what the body of the try statement raises: session.get, then
\* raise_for_status (4xx and 5xx), then response.json()
FetchRaises(r, jsonErrorClass) ==
    IF r.outcome # "response" THEN r.outcome
    ELSE IF r.status_code >= 400 /\ r.status_code < 600 THEN "HTTPError"
    ELSE IF "json" \notin DOMAIN r THEN jsonErrorClass
    ELSE "none"

\* open(name, 'w') and what is written to it
WriteFile(fs, name, content) ==
    [n \in DOMAIN fs \cup {name} |-> IF n = name THEN content ELSE fs[n]]

\* lines 52-79
Fetch ==
    /\ pc = "fetch"
    /\ \E r \in Responses, cls \in JsonErrorClasses :
        LET exc == FetchRaises(r, cls)
            handler == Handler(exc)
        IN  /\ response' = r
            /\ requestCount' = requestCount + 1
            /\ jsonError' = IF exc = cls THEN cls ELSE "none"
            /\ IF exc = "none"
               THEN /\ data' = r.json
                    /\ stdout' = stdout \o <<MsgFetching, MsgFetched>>
                    /\ pc' = "shape"
                    /\ UNCHANGED <<files, raised>>
               ELSE /\ data' = data
                    /\ IF handler = "HTTPError"
                       THEN /\ stdout' = stdout \o <<MsgFetching, MsgHttpError, MsgPrivate>>
                            /\ pc' = "returned"
                            /\ UNCHANGED <<files, raised>>
                       ELSE IF handler = "RequestException"
                       THEN /\ stdout' = stdout \o <<MsgFetching, MsgRequestError>>
                            /\ pc' = "returned"
                            /\ UNCHANGED <<files, raised>>
                       ELSE IF handler = "json.JSONDecodeError"
                       THEN /\ stdout' = stdout \o <<MsgFetching, MsgDecodeError, MsgSavingHtml>>
                            /\ files' = WriteFile(files, ErrorResponseHtml, r.text)
                            /\ pc' = "returned"
                            /\ UNCHANGED raised
                       ELSE /\ stdout' = stdout \o <<MsgFetching>>
                            /\ raised' = exc
                            /\ pc' = "crashed"
                            /\ UNCHANGED files
    /\ UNCHANGED <<url, site_name, json_api_url, documents>>
    /\ UNCHANGED sanVars

-----------------------------------------------------------------------------
(* 3. The shape of the answer *)

\* d.get(key, default)
DictGet(d, key, default) == IF key \in DOMAIN d THEN d[key] ELSE default

\* json.dump(data, f, indent=2)
JsonDump(value) == [json |-> value, indent |-> 2]

\* documents is None or not isinstance(documents, list)
NotAList(docs) == docs.type = "NoneType" \/ docs.type # "list"

NoDocumentsNever(docs) == FALSE

\* not documents
NoDocuments(docs) == Len(docs.items) = 0

\* lines 82-94
CheckShape ==
    /\ pc = "shape"
    /\ IF data.type # "dict"
       THEN \* data.get is looked up on a list, a str, a number or None
            /\ raised' = "AttributeError"
            /\ pc' = "crashed"
            /\ UNCHANGED <<documents, files, stdout>>
       ELSE LET docs == DictGet(data.members, "data", PyNone)
            IN  /\ documents' = docs
                /\ raised' = raised
                /\ IF NotAList(docs)
                   THEN /\ stdout' = stdout \o <<MsgNoDataList, MsgSavingJson>>
                        /\ files' = WriteFile(files, DebugJson, JsonDump(data))
                        /\ pc' = "returned"
                   ELSE IF NoDocuments(docs)
                   THEN /\ stdout' = stdout \o <<MsgNoDocuments>>
                        /\ pc' = "returned"
                        /\ UNCHANGED files
                   ELSE /\ stdout' = stdout \o <<MsgFound>>
                        /\ pc' = "write_csv"
                        /\ UNCHANGED files
    /\ UNCHANGED <<url, jsonError, site_name, json_api_url, requestCount,
                   response, data>>
    /\ UNCHANGED sanVars

-----------------------------------------------------------------------------
(* 4-6. The CSV index and the download script *)

\* f"downloaded_{site_name}"
DownloadDir(site) == DownloadedPrefix \o site

\* f"{site_name}_documents.csv"
CsvFilename(site) == site \o CsvSuffix

\* f"download_{site_name}.sh"
ScriptFilename(site) == DownloadPrefix \o site \o ShSuffix

CsvRowSanitized(doc) ==
    <<safe_filename(DictGet(doc, "name", NoNameFound)),
      DictGet(doc, "publicUrl", NoUrlFound)>>

\* writer.writerow([name, public_url]): the cells of a row
CsvRow(doc) ==
    <<DictGet(doc, "name", NoNameFound), DictGet(doc, "publicUrl", NoUrlFound)>>

\* the rows given to csv.writer: the header, then a row for each document
CsvContent(docs) ==
    <<<<NameColumn, UrlColumn>>>> \o [i \in 1..Len(docs) |-> CsvRow(docs[i])]

\* lines 102-110
WriteCsv ==
    /\ pc = "write_csv"
    /\ files' = WriteFile(files, CsvFilename(site_name), CsvContent(documents.items))
    /\ stdout' = stdout \o <<MsgWritingCsv, MsgSuccess>>
    /\ pc' = "write_script"
    /\ UNCHANGED <<url, jsonError, site_name, json_api_url, requestCount,
                   response, data, documents, raised>>
    /\ UNCHANGED sanVars

\* os.path.join(a, b) of posixpath
PathJoin(a, b) ==
    IF b # <<>> /\ b[1] = "/" THEN b
    ELSE IF a = <<>> \/ a[Len(a)] = "/" THEN a \o b
    ELSE a \o <<"/">> \o b

\* One f.write of the script: what it writes ("skip": the SKIPPING comment,
\* "echo": the Downloading line, "wget": the wget command) and the values
\* interpolated into it.
ScriptLine(kind, name, path, public_url) ==
    [write |-> kind, name |-> name, path |-> path, url |-> public_url]

\* lines 115-118
ScriptHeader(download_dir) ==
    << ScriptLine("#!/bin/sh", <<>>, <<>>, <<>>),
       ScriptLine("# Auto-generated PowerDMS download script", <<>>, <<>>, <<>>),
       ScriptLine("# Create the download directory if it doesn't exist", <<>>, <<>>, <<>>),
       ScriptLine("mkdir -p", <<>>, download_dir, <<>>) >>

\* 'no-url-found' in public_url
UrlMissing(public_url) == Contains(public_url, NoUrlFound)

\* lines 121-135: what one document adds to the script
ScriptBlock(download_dir, doc) ==
    LET name == DictGet(doc, "name", NoNameFound)
        public_url == DictGet(doc, "publicUrl", NoUrlFound)
        output_filename == safe_filename(name) \o PdfSuffix
        full_output_path == PathJoin(download_dir, output_filename)
    IN  IF UrlMissing(public_url)
        THEN << ScriptLine("skip", name, <<>>, <<>>) >>
        ELSE << ScriptLine("echo", name, <<>>, <<>>),
                ScriptLine("wget", <<>>, full_output_path, public_url) >>

\* for doc in documents
RECURSIVE ScriptBlocks(_, _)
ScriptBlocks(download_dir, docs) ==
    IF docs = <<>> THEN <<>>
    ELSE ScriptBlock(download_dir, Head(docs))
            \o ScriptBlocks(download_dir, Tail(docs))

ScriptContent(site, docs) ==
    ScriptHeader(DownloadDir(site)) \o ScriptBlocks(DownloadDir(site), docs)

\* lines 113-143
WriteScript ==
    /\ pc = "write_script"
    /\ files' = WriteFile(files, ScriptFilename(site_name),
                          ScriptContent(site_name, documents.items))
    /\ stdout' = stdout \o <<MsgGenerating, MsgSuccess, MsgAllDone>>
    /\ pc' = "done"
    /\ UNCHANGED <<url, jsonError, site_name, json_api_url, requestCount,
                   response, data, documents, raised>>
    /\ UNCHANGED sanVars

Next == Resolve \/ Fetch \/ CheckShape \/ WriteCsv \/ WriteScript

Spec == Init /\ [][Next]_vars

-----------------------------------------------------------------------------
(* Properties of scrape_powerdms_site *)

\* the run has ended: by a return, by reaching the end, or by an exception
Terminal == pc \in {"returned", "done", "crashed"}

LastPrinted == IF stdout = <<>> THEN "" ELSE stdout[Len(stdout)]

Answered == requestCount > 0 /\ response.outcome = "response"

ParsedBody == Answered /\ "json" \in DOMAIN response

Written(name) == name \in DOMAIN files

NoIndexNoScript ==
    /\ ~Written(CsvFilename(site_name))
    /\ ~Written(ScriptFilename(site_name))

\* the body is a 2xx answer that is not JSON
MalformedBody ==
    /\ Answered
    /\ response.status_code >= 200 /\ response.status_code < 300
    /\ "json" \notin DOMAIN response

\* the body is JSON without a 'data' field, or with one that is no list
UnexpectedShape ==
    /\ ParsedBody
    /\ \/ response.json.type # "dict"
       \/ "data" \notin DOMAIN response.json.members
       \/ response.json.members.data.type # "list"

\* the body is a JSON object whose 'data' is the empty list
EmptyCatalog ==
    /\ ParsedBody
    /\ response.json.type = "dict"
    /\ "data" \in DOMAIN response.json.members
    /\ response.json.members.data.type = "list"
    /\ response.json.members.data.items = <<>>

\* the host lacks the hosting suffix, or the path has no non-empty segment
BadSiteUrl ==
    \/ ~EndsWith(url.host, PowerdmsSuffix)
    \/ \A i \in 1..Len(url.path) : url.path[i] = "/"

\* C1: a 2xx response whose body is not JSON ends with the raw body in
\* 'error_response.html' and with neither the CSV index nor the script.
C1_MalformedBodySaved ==
    (Terminal /\ MalformedBody) =>
        /\ Written(ErrorResponseHtml)
        /\ files[ErrorResponseHtml] = response.text
        /\ NoIndexNoScript

\* C2: a JSON body without a 'data' field, or whose 'data' is no list, ends
\* with the pretty-printed parsed structure in 'debug.json' and with neither
\* the CSV index nor the script.
C2_UnexpectedShapeSaved ==
    (Terminal /\ UnexpectedShape) =>
        /\ Written(DebugJson)
        /\ files[DebugJson] = [json |-> response.json, indent |-> 2]
        /\ NoIndexNoScript

\* C3: under each failure condition (invalid site URL, transport error,
\* non-2xx status, malformed body, unexpected shape, empty catalog) the run
\* prints a diagnostic and returns early: no exception leaves the function
\* and no later stage runs (no request after an invalid URL, no CSV index
\* and no script after any failure).
C3_FailuresReturnEarly ==
    LET invalidUrl == requestCount = 0
        transport == requestCount > 0 /\ response.outcome # "response"
        badStatus == Answered
                        /\ ~(response.status_code >= 200 /\ response.status_code < 300)
        failed == invalidUrl \/ transport \/ badStatus \/ MalformedBody
                    \/ UnexpectedShape \/ EmptyCatalog
    IN  (Terminal /\ failed) =>
            /\ pc = "returned"
            /\ raised = "none"
            /\ LastPrinted \in {MsgExample, MsgParseError, MsgPrivate, MsgRequestError,
                                MsgSavingHtml, MsgSavingJson, MsgNoDocuments}
            /\ NoIndexNoScript

C5_EmptyCatalogWritesNothing ==
    EmptyCatalog =>
        /\ DOMAIN files = {}
        /\ Terminal => (pc = "returned" /\ LastPrinted = MsgNoDocuments)

C5_Witness ==
    /\ EmptyCatalog
    /\ pc = "returned"
    /\ LastPrinted = MsgNoDocuments

\* C6: for a non-empty catalog the CSV index is the header row name,url and
\* then one row per record in catalog order, the i-th row holding the i-th
\* record's raw name and raw publicUrl, 'no-name-found' / 'no-url-found'
\* standing for an absent field.
C6_CsvIndexRows ==
    pc \in {"write_script", "done"} =>
        LET records == response.json.members.data.items
            csv == files[CsvFilename(site_name)]
        IN  /\ Written(CsvFilename(site_name))
            /\ records # <<>>
            /\ Len(csv) = Len(records) + 1
            /\ csv[1] = <<NameColumn, UrlColumn>>
            /\ \A i \in 1..Len(records) :
                csv[i + 1] =
                    << IF "name" \in DOMAIN records[i]
                       THEN records[i].name ELSE NoNameFound,
                       IF "publicUrl" \in DOMAIN records[i]
                       THEN records[i].publicUrl ELSE NoUrlFound >>

C6_Witness ==
    /\ pc = "done"
    /\ documents.items = << [id |-> <<"1">>, publicUrl |-> <<"u">>],
                            [id |-> <<"1">>, name |-> <<"A", "/", "B">>] >>
    /\ files[CsvFilename(site_name)][2] = <<NoNameFound, <<"u">> >>
    /\ files[CsvFilename(site_name)][3] = << <<"A", "/", "B">>, NoUrlFound>>

RecordName(doc) == IF "name" \in DOMAIN doc THEN doc.name ELSE NoNameFound

RecordUrl(doc) == IF "publicUrl" \in DOMAIN doc THEN doc.publicUrl ELSE NoUrlFound

RecordHasUrl(doc) == RecordUrl(doc) # NoUrlFound

RecordLacksUrl(doc) == RecordUrl(doc) = NoUrlFound

IsWget(line) == line.write = "wget"

IsSkip(line) == line.write = "skip"

\* C7: the script holds a skip comment and no download line for a record
\* exactly when its publicUrl is the sentinel 'no-url-found'; for every other
\* record it holds one download invocation, whose output path is
\* '{downloadDir}/{sanitize(name)}.pdf' and whose source is the publicUrl.
C7_ScriptMatchesRecords ==
    pc = "done" =>
        LET records == response.json.members.data.items
            script == files[ScriptFilename(site_name)]
            wgets == SelectSeq(script, IsWget)
            skips == SelectSeq(script, IsSkip)
            downloadable == SelectSeq(records, RecordHasUrl)
            skipped == SelectSeq(records, RecordLacksUrl)
        IN  /\ Len(wgets) = Len(downloadable)
            /\ \A i \in 1..Len(downloadable) :
                /\ i <= Len(wgets)
                /\ wgets[i].path =
                      DownloadedPrefix \o site_name \o <<"/">>
                          \o safe_filename(RecordName(downloadable[i])) \o PdfSuffix
                /\ wgets[i].url = RecordUrl(downloadable[i])
            /\ Len(skips) = Len(skipped)
            /\ \A i \in 1..Len(skipped) :
                /\ i <= Len(skips)
                /\ skips[i].name = RecordName(skipped[i])

-----------------------------------------------------------------------------
(* Properties of safe_filename *)

\* C8: safe_filename is idempotent: safe_filename(safe_filename(x)) equals
\* safe_filename(x) for every x.
C8_Idempotent == sanPc = "twice" => again = result

\* C9: the output of safe_filename holds none of the reserved characters
\* < > : " / \ | ? *.
C9_NoReservedCharacter ==
    sanPc \in {"once", "twice"} =>
        /\ \A i \in 1..Len(result) : result[i] \notin Reserved
        /\ \A i \in 1..Len(again) : again[i] \notin Reserved

C9_Witness ==
    /\ sanPc = "once"
    /\ text = <<"/", "a", "?">>
    /\ result = <<"_", "a", "_">>

\* C10: the leading and trailing underscores that the collapse of whitespace
\* produces are stripped: an argument that begins or ends with whitespace or
\* a reserved character, and holds no underscore of its own, yields an output
\* that neither begins nor ends with an underscore.
C10_EdgeUnderscoresStripped ==
    LET edge == Whitespace \cup Reserved
    IN  ( /\ sanPc = "once"
          /\ text # <<>>
          /\ text[1] \in edge \/ text[Len(text)] \in edge
          /\ \A i \in 1..Len(text) : text[i] # "_" ) =>
            \/ result = <<>>
            \/ result[1] # "_" /\ result[Len(result)] # "_"

=============================================================================
